---- MODULE Spec2Model ----
(***************************************************************************)
(* A model of rustygear's wire layer, packet processing and server loop:   *)
(*   - src/src/codec.rs   PacketHeader / PacketCodec (decode, encode)      *)
(*   - src/src/packet.rs  Packet (field iterator, process and handlers)    *)
(*   - src/rustygear/src/server.rs  GearmanServer::run_with_stop           *)
(* Bytes are naturals 0..255, byte strings are sequences of bytes.         *)
(* Four specifications share the variables; each leaves the variables of   *)
(* the other three at their initial value:                                 *)
(*   SpecCodec   one connection's byte stream driven through the decoder   *)
(*   SpecPacket  one Packet driven through its field iterator              *)
(*   SpecBroker  packets processed against the queues and one worker       *)
(*   SpecServer  the accept loop with each connection's reader and writer  *)
(***************************************************************************)
EXTENDS Integers, Sequences, FiniteSets, TLC

VARIABLES
    \* ---- codec (src/src/codec.rs) ----
    stream,      \* every byte the peer sends on the connection (fixed)
    nread,       \* how many bytes of stream the socket reads have delivered to buf
    buf,         \* the BytesMut handed to PacketCodec::decode
    data_todo,   \* PacketCodec.data_todo : Option<usize>
    frames,      \* the frames decode has returned, in order
    peeked,      \* the first four bytes and the magic of each PacketHeader::decode match
    conn,        \* "open", "panicked" (the reader task panicked) or "error" (decode returned Err)
    \* ---- packet field iterator (src/src/packet.rs) ----
    pkt,         \* the Packet: ptype, data, _field_byte_count, _field_count
    calls,       \* what each call of the iterator's next() returned, in order
    field,       \* what the latest nextField() returned
    \* ---- broker (src/src/packet.rs process and handlers) ----
    queues,      \* the queue set: queued jobs in arrival order
    functions,   \* worker.functions
    job_count,   \* number of jobs created so far (source of fresh handles)
    log,         \* the packets processed so far with the reply of each
    \* ---- server (src/rustygear/src/server.rs) ----
    srv,         \* "running", or how core.run(..).unwrap() ended
    stop_rx,     \* the oneshot: "pending", "sent" (a value was sent) or "canceled"
    curr_conn_id,        \* the AtomicUsize counter
    senders_by_conn_id,  \* the keys of the shared conn_id -> Sender map
    reader,      \* per connection: the reader task (pc, the response it holds)
    dispatched,  \* per connection: how many frames service.call has been given
    egress,      \* per connection: the frames in the mpsc channel, oldest first
    writer,      \* per connection: the writer task (pc, the frame MySinkSend holds)
    wire         \* per connection: the frames the socket sink has accepted, in order

codecVars  == <<stream, nread, buf, data_todo, frames, peeked, conn>>
packetVars == <<pkt, calls, field>>
brokerVars == <<queues, functions, job_count, log>>
serverVars == <<srv, stop_rx, curr_conn_id, senders_by_conn_id,
                reader, dispatched, egress, writer, wire>>
vars == <<stream, nread, buf, data_todo, frames, peeked, conn,
          pkt, calls, field, queues, functions, job_count, log,
          srv, stop_rx, curr_conn_id, senders_by_conn_id,
          reader, dispatched, egress, writer, wire>>

(***************************************************************************)
(* Bounds of the model.                                                    *)
(***************************************************************************)
MaxPayload == 2      \* longest payload of a binary packet on the stream
MaxPackets == 2      \* most packets back to back on the stream
MaxFrames  == 5      \* decode calls that return a frame, per connection
MaxData    == 4      \* longest payload of the Packet whose fields are iterated
MaxCalls   == 10     \* calls of the field iterator on one Packet
MaxOps     == 4      \* packets processed by the broker
MaxConns   == 2      \* connections the listener accepts
MaxIn      == 2      \* frames a connection's stream delivers
MaxEgress  == 1      \* the egress channel's buffer (MAX_UNHANDLED_OUT_FRAMES, scaled down)

(***************************************************************************)
(* Byte-string helpers.                                                    *)
(***************************************************************************)
Take(s, n) == SubSeq(s, 1, n)
Drop(s, n) == SubSeq(s, n + 1, Len(s))
Min(a, b)  == IF a <= b THEN a ELSE b

RECURSIVE Flatten(_)
Flatten(ss) == IF ss = <<>> THEN <<>> ELSE Head(ss) \o Flatten(Tail(ss))

\* bytes::Buf::get_u32::<BigEndian> on a four byte slice
get_u32(b) == b[1] * 16777216 + b[2] * 65536 + b[3] * 256 + b[4]
\* bytes::BufMut::put_u32::<BigEndian>
put_u32(n) == << (n \div 16777216) % 256, (n \div 65536) % 256,
                 (n \div 256) % 256, n % 256 >>

(***************************************************************************)
(* constants.rs and the packet type registry.                              *)
(***************************************************************************)
REQ == <<0, 82, 69, 81>>     \* "\0REQ"
RES == <<0, 82, 69, 83>>     \* "\0RES"
ADMIN_UNKNOWN == 10000
ADMIN_STATUS  == 10001
ADMIN_VERSION == 10002
CAN_DO        == 1
CANT_DO       == 2
SUBMIT_JOB    == 7
JOB_CREATED   == 8
GRAB_JOB      == 9
NO_JOB        == 10
ERROR         == 19
JOB_ASSIGN    == 11
GRAB_JOB_UNIQ == 30
JOB_ASSIGN_UNIQ == 31
GRAB_JOB_ALL  == 39
JOB_ASSIGN_ALL == 40

\* PTYPES[i].nargs, the table of packet.rs (index 0..42)
PTYPES_nargs == << -1, 0, 0, -1, -1, -1, -1, 2, 0, -1, -1, 2, 2, 1, 0, 0, 0, 1, 2,
                   1, 4, 2, 0, 1, -1, 1, 0, 0, 1, 1, -1, 3, 2, 2, 2, 7, 3, 3, 3,
                   -1, 4, 0, 5 >>
PTypeIds == 0 .. (Len(PTYPES_nargs) - 1)
\* PTYPES[ptype as usize] panics when the index is out of bounds
InRegistry(ptype) == ptype \in PTypeIds
nargsOf(ptype) == PTYPES_nargs[ptype + 1]

(***************************************************************************)
(* Frames: tokio_proto::streaming::pipeline::Frame<PacketHeader, BytesMut>. *)
(* One record shape for both variants so that frames compare.              *)
(***************************************************************************)
FrameMessage(magic, ptype, psize, body) ==
    [kind |-> "Message", magic |-> magic, ptype |-> ptype, psize |-> psize,
     body |-> body, some |-> FALSE, chunk |-> <<>>]
FrameBody(some, chunk) ==
    [kind |-> "Body", magic |-> "UNKNOWN", ptype |-> 0, psize |-> 0,
     body |-> FALSE, some |-> some, chunk |-> chunk]
NoFrame == FrameBody(FALSE, <<>>)

\* Option<usize>
None    == [some |-> FALSE, v |-> 0]
Some(n) == [some |-> TRUE, v |-> n]

\* no nextField call yet
NoField == [n |-> 0, ok |-> TRUE, bytes |-> <<>>]

\* Result<Option<PacketItem>, io::Error>, with the buffer and codec state left behind
Ret(status, hasItem, item, b, todo) ==
    [status |-> status, hasItem |-> hasItem, item |-> item, buf |-> b, data_todo |-> todo]

(***************************************************************************)
(* The three parts at rest: what a specification fixes for the parts it    *)
(* does not drive.                                                         *)
(***************************************************************************)
NoPeek == [first4 |-> <<>>, magic |-> "UNKNOWN"]
PacketInit ==
    /\ pkt = [ptype |-> 0, data |-> <<>>, field_byte_count |-> 0, field_count |-> 0]
    /\ calls = <<>>
    /\ field = NoField
BrokerInit ==
    /\ queues = <<>>
    /\ functions = {}
    /\ job_count = 0
    /\ log = <<>>
CodecIdle ==
    /\ stream = <<>>
    /\ nread = 0
    /\ buf = <<>>
    /\ data_todo = None
    /\ frames = <<>>
    /\ peeked = NoPeek
    /\ conn = "open"
\* run_with_stop before the listener has accepted a connection
ConnIds == 0 .. (MaxConns - 1)
NoTask == [pc |-> "none", item |-> "Ready", frame |-> 0]
ServerInit ==
    /\ srv = "running"
    /\ stop_rx = "pending"
    /\ curr_conn_id = 0                       \* AtomicUsize::new(0)
    /\ senders_by_conn_id = {}                \* HashMap::new()
    /\ reader = [c \in ConnIds |-> NoTask]
    /\ dispatched = [c \in ConnIds |-> 0]
    /\ egress = [c \in ConnIds |-> <<>>]
    /\ writer = [c \in ConnIds |-> NoTask]
    /\ wire = [c \in ConnIds |-> <<>>]

(***************************************************************************)
(* PacketHeader (codec.rs).                                                *)
(***************************************************************************)
NEWLINE == 10
IsWhitespace(b) == b \in {9, 10, 11, 12, 13, 32}
RECURSIVE TrimStart(_)
TrimStart(s) == IF s # <<>> /\ IsWhitespace(Head(s)) THEN TrimStart(Tail(s)) ELSE s
RECURSIVE TrimEnd(_)
TrimEnd(s) == IF s # <<>> /\ IsWhitespace(s[Len(s)]) THEN TrimEnd(Take(s, Len(s) - 1)) ELSE s
\* str::trim
Trim(s) == TrimEnd(TrimStart(s))
\* str::from_utf8 succeeds; exact for the byte strings of this model, whose bytes
\* above 127 never reach an admin line (every stream byte is ASCII)
from_utf8_ok(s) == \A i \in 1 .. Len(s) : s[i] < 128
STR_version == <<118, 101, 114, 115, 105, 111, 110>>
STR_status  == <<115, 116, 97, 116, 117, 115>>

\* PacketHeader::admin_decode
admin_decode(b) ==
    LET at == {i \in 1 .. Len(b) : b[i] = NEWLINE} IN
    IF at # {}
    THEN LET n    == (CHOOSE i \in at : \A j \in at : i <= j) - 1
             line == Take(b, n)
             rest == Drop(b, n + 1)
             cmd  == IF Trim(line) = STR_version THEN ADMIN_VERSION
                     ELSE IF Trim(line) = STR_status THEN ADMIN_STATUS
                     ELSE ADMIN_UNKNOWN
         IN IF ~from_utf8_ok(line)
            THEN Ret("Err", FALSE, NoFrame, rest, None)
            ELSE Ret("Ok", TRUE, FrameMessage("TEXT", cmd, 0, FALSE), rest, None)
    ELSE Ret("Ok", FALSE, NoFrame, b, None)

\* A Rust identifier pattern naming a local `let` variable: it binds the scrutinee
\* and matches every value (only consts, statics and enum variants are compared).
IdentifierPattern(name, value) == TRUE

\* The match of PacketHeader::decode over &buf[0..4]. REQ_slice and RES_slice are
\* local variables of decode, so both arms are identifier patterns.
MatchMagic(first4) ==
    IF IdentifierPattern("REQ_slice", first4) THEN "REQ"
    ELSE IF IdentifierPattern("RES_slice", first4) THEN "RES"
    ELSE "TEXT"

\* PacketHeader::decode. debug is whether the log crate has the debug level on,
\* which is when the arguments of debug!(...) are evaluated.
PacketHeader_decode(b, debug) ==
    IF Len(b) < 4
    THEN Ret("Panic", FALSE, NoFrame, b, None)            \* &buf[0..4] out of range
    ELSE LET magic == MatchMagic(Take(b, 4)) IN
         IF magic = "TEXT" THEN admin_decode(b)
         ELSE IF Len(b) < 12 THEN Ret("Ok", FALSE, NoFrame, b, None)
         ELSE LET ptype == get_u32(SubSeq(b, 5, 8))
                  psize == get_u32(SubSeq(b, 9, 12))
              IN IF debug /\ ~InRegistry(ptype)
                 THEN Ret("Panic", FALSE, NoFrame, Drop(b, 8), None)  \* PTYPES[ptype]
                 ELSE Ret("Ok", TRUE, FrameMessage(magic, ptype, psize, TRUE),
                          Drop(b, 12), None)

\* PacketHeader::to_bytes
to_bytes(message) ==
    IF message.magic = "TEXT" THEN <<>>
    ELSE (IF message.magic = "REQ" THEN REQ ELSE RES)
         \o put_u32(message.ptype) \o put_u32(message.psize)

(***************************************************************************)
(* PacketCodec (codec.rs).                                                 *)
(***************************************************************************)
\* PacketCodec::decode with the remaining count cleared after the first chunk
PacketCodec_decode_OneChunk(todo, b, debug) ==
    IF ~todo.some
    THEN LET h == PacketHeader_decode(b, debug) IN
         IF h.status # "Ok" THEN [h EXCEPT !.data_todo = todo]
         ELSE IF h.hasItem
              THEN Ret("Ok", TRUE, h.item, h.buf, Some(h.item.psize))
              ELSE Ret("Ok", FALSE, NoFrame, h.buf, todo)
    ELSE IF todo.v = 0
         THEN Ret("Ok", TRUE, FrameBody(FALSE, <<>>), b, todo)
         ELSE LET chunk_size == Min(Len(b), todo.v) IN
              Ret("Ok", TRUE, FrameBody(TRUE, Take(b, chunk_size)),
                  Drop(b, chunk_size), Some(0))

\* impl Decoder for PacketCodec :: decode
PacketCodec_decode(todo, b, debug) ==
    IF ~todo.some
    THEN LET h == PacketHeader_decode(b, debug) IN
         IF h.status # "Ok" THEN [h EXCEPT !.data_todo = todo]
         ELSE IF h.hasItem
              THEN Ret("Ok", TRUE, h.item, h.buf, Some(h.item.psize))
              ELSE Ret("Ok", FALSE, NoFrame, h.buf, todo)
    ELSE IF todo.v = 0
         THEN Ret("Ok", TRUE, FrameBody(FALSE, <<>>), b, todo)
         ELSE LET chunk_size == Min(Len(b), todo.v) IN
              Ret("Ok", TRUE, FrameBody(TRUE, Take(b, chunk_size)),
                  Drop(b, chunk_size), Some(todo.v - chunk_size))

\* impl Encoder for PacketCodec :: encode, appending to out
PacketCodec_encode(msg, out) ==
    IF msg.kind = "Message" THEN out \o to_bytes(msg)
    ELSE IF msg.some THEN out \o msg.chunk
    ELSE out

\* encode applied to every frame of fs in order, starting from an empty buffer
RECURSIVE EncodeAll(_)
EncodeAll(fs) ==
    IF fs = <<>> THEN <<>>
    ELSE PacketCodec_encode(fs[Len(fs)], EncodeAll(Take(fs, Len(fs) - 1)))

(***************************************************************************)
(* Packet: the field iterator (packet.rs).                                 *)
(***************************************************************************)
NUL == 0
\* Option<(usize, usize)> with the Packet left behind
NextRet(status, p, some, start, finish) ==
    [status |-> status, pkt |-> p, some |-> some, start |-> start, finish |-> finish]

\* impl Iterator for Packet :: next, with the guard `_field_count >= nargs`
Packet_next_GuardGe(p) ==
    IF ~InRegistry(p.ptype) THEN NextRet("Panic", p, FALSE, 0, 0)
    ELSE LET nargs == nargsOf(p.ptype) IN
         IF p.field_count >= nargs THEN NextRet("Ok", p, FALSE, 0, 0)
         ELSE LET count == p.field_count + 1 IN
              IF count = nargs
              THEN NextRet("Ok", [p EXCEPT !.field_count = count], TRUE,
                           p.field_byte_count, Len(p.data))
              ELSE LET start == p.field_byte_count
                       rest  == Drop(p.data, start)
                       nuls  == {i \in 1 .. Len(rest) : rest[i] = NUL}
                       step  == IF nuls = {} THEN Len(rest)
                                ELSE CHOOSE i \in nuls : \A j \in nuls : i <= j
                   IN NextRet("Ok", [p EXCEPT !.field_count = count,
                                               !.field_byte_count = start + step],
                              TRUE, start, start + step)

\* impl Iterator for Packet :: next. The for loop adds one to _field_byte_count
\* per byte visited and stops after the first NUL, so the NUL is counted.
Packet_next(p) ==
    IF ~InRegistry(p.ptype) THEN NextRet("Panic", p, FALSE, 0, 0)   \* PTYPES[ptype]
    ELSE LET nargs == nargsOf(p.ptype) IN
         IF p.field_count > nargs THEN NextRet("Ok", p, FALSE, 0, 0)
         ELSE LET count == p.field_count + 1 IN
              IF count = nargs
              THEN NextRet("Ok", [p EXCEPT !.field_count = count], TRUE,
                           p.field_byte_count, Len(p.data))
              ELSE LET start == p.field_byte_count
                       rest  == Drop(p.data, start)
                       nuls  == {i \in 1 .. Len(rest) : rest[i] = NUL}
                       step  == IF nuls = {} THEN Len(rest)
                                ELSE CHOOSE i \in nuls : \A j \in nuls : i <= j
                   IN NextRet("Ok", [p EXCEPT !.field_count = count,
                                               !.field_byte_count = start + step],
                              TRUE, start, start + step)

\* Packet::nextField: Err(ParseError) when next() is None, else a copy of
\* data[start..finish] (Vec::with_capacity(n) has capacity n for a Vec<u8>)
nextField(p) ==
    LET r == Packet_next(p) IN
    [status |-> IF r.status = "Panic" THEN "Panic" ELSE IF r.some THEN "Ok" ELSE "Err",
     pkt    |-> r.pkt,
     some   |-> r.some, start |-> r.start, finish |-> r.finish,
     bytes  |-> IF r.some THEN SubSeq(p.data, r.start + 1, r.finish) ELSE <<>>]

\* Packet::new / new_res: both counters start at 0
NewPacket(ptype, data) ==
    [ptype |-> ptype, data |-> data, field_byte_count |-> 0, field_count |-> 0]

(***************************************************************************)
(* SpecPacket: one Packet of a registered type, its iterator called again  *)
(* and again, directly (next) or through nextField.                        *)
(***************************************************************************)
DataBytes == {NUL, 97}
Datas == UNION {[1 .. n -> DataBytes] : n \in 0 .. MaxData}
Range(some, start, finish) == [some |-> some, start |-> start, finish |-> finish]

PacketSpecInit ==
    /\ \E t \in PTypeIds, d \in Datas : pkt = NewPacket(t, d)
    /\ calls = <<>>
    /\ field = NoField
    /\ CodecIdle
    /\ BrokerInit
    /\ ServerInit

CallNext ==
    /\ Len(calls) < MaxCalls
    /\ LET r == Packet_next(pkt) IN
        /\ r.status = "Ok"
        /\ pkt' = r.pkt
        /\ calls' = Append(calls, Range(r.some, r.start, r.finish))
    /\ UNCHANGED field
    /\ UNCHANGED <<codecVars, brokerVars, serverVars>>

CallNextField ==
    /\ Len(calls) < MaxCalls
    /\ LET r == nextField(pkt) IN
        /\ r.status # "Panic"
        /\ pkt' = r.pkt
        /\ calls' = Append(calls, Range(r.some, r.start, r.finish))
        /\ field' = [n |-> Len(calls) + 1, ok |-> r.status = "Ok", bytes |-> r.bytes]
    /\ UNCHANGED <<codecVars, brokerVars, serverVars>>

PacketNext == CallNext \/ CallNextField
SpecPacket == PacketSpecInit /\ [][PacketNext]_vars

(***************************************************************************)
(* Claims about the field iterator, checked under SpecPacket.              *)
(***************************************************************************)
NulsOf(d) == {i \in 1 .. Len(d) : d[i] = NUL}
\* 1-based position of the k-th NUL of d (k in 1 .. Cardinality(NulsOf(d)))
KthNul(d, k) == CHOOSE i \in NulsOf(d) : Cardinality({j \in NulsOf(d) : j <= i}) = k
\* the payload format: field i of nargs+1 as a half-open byte range [start, finish)
FieldOf(d, nargs, i) ==
    Range(TRUE,
          IF i = 1 THEN 0 ELSE KthNul(d, i - 1),
          IF i = nargs + 1 THEN Len(d) ELSE KthNul(d, i) - 1)

\* C5: with nargs >= 1 and at least nargs NULs in the payload, call i of the
\* iterator (1 <= i <= nargs+1) yields the range of the i-th field: the bytes
\* between the NULs for a leading field, the rest of the payload for the last.
C5_RangesAreTheFields ==
    LET nargs == nargsOf(pkt.ptype) IN
    (nargs >= 1 /\ Cardinality(NulsOf(pkt.data)) >= nargs) =>
        \A i \in 1 .. Len(calls) :
            i <= nargs + 1 => calls[i] = FieldOf(pkt.data, nargs, i)

\* C6: the iterator yields a range on its first nargs+1 calls and on no other
\* call (none at all for nargs < 0), and a nextField call after those returns
\* ParseError.
C6_YieldsNargsPlusOne ==
    LET nargs == nargsOf(pkt.ptype) IN
    /\ \A i \in 1 .. Len(calls) : calls[i].some <=> i <= nargs + 1
    /\ field.n > nargs + 1 => ~field.ok
\* SUBMIT_JOB, iterated twice past its three fields, the last time by nextField
C6_SubmitJobExhausted ==
    /\ pkt.ptype = SUBMIT_JOB
    /\ Len(calls) = 5
    /\ field.n = 5 /\ ~field.ok
    /\ calls[3].some /\ ~calls[4].some

(***************************************************************************)
(* Jobs, the queue set and the worker (job.rs, queues.rs, worker.rs).      *)
(***************************************************************************)
\* the n-th handle the broker assigns: "H:" and a digit
Handle(n) == <<72, 58, 48 + n>>
\* Job::new(fname, unique, data) as the n-th job of the broker
Job_new(fname, unique, data, n) ==
    [handle |-> Handle(n), fname |-> fname, unique |-> unique, data |-> data,
     priority |-> "NORMAL"]
PriorityRank(pr) == IF pr = "HIGH" THEN 0 ELSE IF pr = "NORMAL" THEN 1 ELSE 2
RemoveAt(q, i) == Take(q, i - 1) \o Drop(q, i)

\* QueueHolder::add_job: a job whose (fname, unique) is already queued is not
\* inserted; any other goes to the tail of its queue
add_job(q, j) ==
    IF \E i \in 1 .. Len(q) : q[i].fname = j.fname /\ q[i].unique = j.unique
    THEN q
    ELSE Append(q, j)

\* the head of function f's queues in q: highest priority first, then arrival order
HeadOf(q, f) ==
    LET mine == {i \in 1 .. Len(q) : q[i].fname = f} IN
    CHOOSE i \in mine :
        \A k \in mine :
            \/ PriorityRank(q[i].priority) < PriorityRank(q[k].priority)
            \/ PriorityRank(q[i].priority) = PriorityRank(q[k].priority) /\ i <= k
\* QueueHolder::get_job(&worker.functions): the positions in q of the jobs it may
\* return (the head for one of the functions, in the set's iteration order);
\* empty when it returns None
get_job(q, fs) ==
    {HeadOf(q, f) : f \in {g \in fs : \E i \in 1 .. Len(q) : q[i].fname = g}}

(***************************************************************************)
(* Packet::process and its handlers (packet.rs).                           *)
(***************************************************************************)
\* Packet::new_res
new_res(ptype, data) == [magic |-> "RES", ptype |-> ptype, psize |-> Len(data), data |-> data]
NoPacket == [magic |-> "UNKNOWN", ptype |-> 0, psize |-> 0, data |-> <<>>]

\* Result<Option<Packet>> with the queues, the worker's functions and the job
\* counter left behind; fname is the function name the handler read, if any
Outcome(status, hasReply, reply, q, fs, n, fname) ==
    [status |-> status, hasReply |-> hasReply, reply |-> reply,
     queues |-> q, functions |-> fs, job_count |-> n, fname |-> fname]

\* Packet::handleCanDo
handleCanDo(p, q, fs, n) ==
    LET r == nextField(p) IN
    IF r.status # "Ok" THEN {Outcome(r.status, FALSE, NoPacket, q, fs, n, <<>>)}
    ELSE {Outcome("Ok", FALSE, NoPacket, q, fs \cup {r.bytes}, n, r.bytes)}

\* Packet::handleCantDo
handleCantDo(p, q, fs, n) ==
    LET r == nextField(p) IN
    IF r.status # "Ok" THEN {Outcome(r.status, FALSE, NoPacket, q, fs, n, <<>>)}
    ELSE {Outcome("Ok", FALSE, NoPacket, q, fs \ {r.bytes}, n, r.bytes)}

\* Packet::handleGrabJobAll: the job get_job returns is bound to j and dropped
handleGrabJobAll(p, q, fs, n) ==
    IF get_job(q, fs) = {}
    THEN {Outcome("Ok", TRUE, new_res(NO_JOB, <<>>), q, fs, n, <<>>)}
    ELSE {Outcome("Ok", FALSE, NoPacket, RemoveAt(q, i), fs, n, <<>>) : i \in get_job(q, fs)}

\* Packet::handleSubmitJob
handleSubmitJob(p, q, fs, n) ==
    LET r1 == nextField(p)
        r2 == nextField(r1.pkt)
        r3 == nextField(r2.pkt)
    IN IF r1.status # "Ok" THEN {Outcome(r1.status, FALSE, NoPacket, q, fs, n, <<>>)}
       ELSE IF r2.status # "Ok" THEN {Outcome(r2.status, FALSE, NoPacket, q, fs, n, <<>>)}
       ELSE IF r3.status # "Ok" THEN {Outcome(r3.status, FALSE, NoPacket, q, fs, n, <<>>)}
       ELSE LET j == Job_new(r1.bytes, r2.bytes, r3.bytes, n + 1) IN
            {Outcome("Ok", TRUE, new_res(JOB_CREATED, j.handle), add_job(q, j), fs, n + 1,
                     r1.bytes)}

\* Packet::process: the outcomes of processing a fresh packet (ptype, data)
process(ptype, data, q, fs, n) ==
    LET p == NewPacket(ptype, data) IN
    IF ptype = SUBMIT_JOB THEN handleSubmitJob(p, q, fs, n)
    ELSE IF ptype = CAN_DO THEN handleCanDo(p, q, fs, n)
    ELSE IF ptype = CANT_DO THEN handleCantDo(p, q, fs, n)
    ELSE IF ptype = GRAB_JOB_ALL THEN handleGrabJobAll(p, q, fs, n)
    ELSE IF ~InRegistry(ptype)                       \* println!("{:?}", self): PTYPES[ptype]
         THEN {Outcome("Panic", FALSE, NoPacket, q, fs, n, <<>>)}
         ELSE {Outcome("Ok", FALSE, NoPacket, q, fs, n, <<>>)}

(***************************************************************************)
(* SpecBroker: request packets of one connection, processed one at a time  *)
(* against the queue set and the connection's worker.                      *)
(***************************************************************************)
Names    == {<<102>>, <<103>>}                 \* "f", "g"
Uniques  == {<<117>>}                          \* "u"
JobDatas == {<<112>>, <<113>>}                 \* "p", "q"
\* SUBMIT_JOB payloads: fname NUL unique NUL data
SubmitPayloads == {f \o <<NUL>> \o u \o <<NUL>> \o d : f \in Names, u \in Uniques, d \in JobDatas}
\* SUBMIT_JOB payloads that hold fewer than the two NUL separators: `f`, `f NUL u`
ShortSubmitPayloads == Names \cup {f \o <<NUL>> \o u : f \in Names, u \in Uniques}
\* CAN_DO / CANT_DO payloads: the name, the name followed by a NUL, and a name
\* with a NUL inside it (`f NUL g`)
NamePayloads == Names \cup {f \o <<NUL>> : f \in Names} \cup {<<102, NUL, 103>>}
\* a packet type that is not in PTYPES: the first index past the table
UnknownPTypes == {Len(PTYPES_nargs)}
GrabPTypes == {GRAB_JOB, GRAB_JOB_UNIQ, GRAB_JOB_ALL}

BrokerSpecInit ==
    /\ queues = <<>>            \* a new broker has no job
    /\ functions = {}           \* a new worker can do nothing
    /\ job_count = 0
    /\ log = <<>>
    /\ CodecIdle
    /\ PacketInit
    /\ ServerInit

\* the thread that runs process has panicked: nothing is processed after it
Panicked == log # <<>> /\ log[Len(log)].status = "Panic"

\* the reader hands the packet (ptype, data) to Packet::process
Process(ptype, data) ==
    \E o \in process(ptype, data, queues, functions, job_count) :
        /\ ~Panicked
        /\ queues' = o.queues
        /\ functions' = o.functions
        /\ job_count' = o.job_count
        /\ log' = Append(log, [ptype |-> ptype, data |-> data, status |-> o.status,
                               hasReply |-> o.hasReply, reply |-> o.reply,
                               fname |-> o.fname])

RecvSubmitJob ==
    /\ Len(log) < MaxOps
    /\ \E d \in SubmitPayloads \cup ShortSubmitPayloads : Process(SUBMIT_JOB, d)
    /\ UNCHANGED <<codecVars, packetVars, serverVars>>
RecvCanDo ==
    /\ Len(log) < MaxOps
    /\ \E d \in NamePayloads : Process(CAN_DO, d)
    /\ UNCHANGED <<codecVars, packetVars, serverVars>>
RecvCantDo ==
    /\ Len(log) < MaxOps
    /\ \E d \in NamePayloads : Process(CANT_DO, d)
    /\ UNCHANGED <<codecVars, packetVars, serverVars>>
RecvGrabJobAll ==
    /\ Len(log) < MaxOps
    /\ Process(GRAB_JOB_ALL, <<>>)
    /\ UNCHANGED <<codecVars, packetVars, serverVars>>
\* GRAB_JOB and GRAB_JOB_UNIQ: no arm of process names them
RecvGrabJob ==
    /\ Len(log) < MaxOps
    /\ \E t \in {GRAB_JOB, GRAB_JOB_UNIQ} : Process(t, <<>>)
    /\ UNCHANGED <<codecVars, packetVars, serverVars>>
\* a packet whose ptype no entry of PTYPES describes
RecvUnknown ==
    /\ Len(log) < MaxOps
    /\ \E t \in UnknownPTypes : Process(t, <<>>)
    /\ UNCHANGED <<codecVars, packetVars, serverVars>>

BrokerNext ==
    \/ RecvSubmitJob \/ RecvCanDo \/ RecvCantDo
    \/ RecvGrabJobAll \/ RecvGrabJob \/ RecvUnknown
SpecBroker == BrokerSpecInit /\ [][BrokerNext]_vars

(***************************************************************************)
(* Claims about packet processing, checked under SpecBroker.               *)
(***************************************************************************)
\* the bytes of field i of a payload d of nargs+1 fields, by the payload format
FieldBytes(d, nargs, i) ==
    SubSeq(d, FieldOf(d, nargs, i).start + 1, FieldOf(d, nargs, i).finish)
IsSubmit(e) == e.ptype = SUBMIT_JOB /\ Cardinality(NulsOf(e.data)) >= 2
SubmitName(e)   == FieldBytes(e.data, 2, 1)
SubmitUnique(e) == FieldBytes(e.data, 2, 2)
Queued(h) == \E n \in 1 .. Len(queues) : queues[n].handle = h
\* the names the worker has registered: CAN_DO payloads with no later CANT_DO
Registered ==
    {log[k].data : k \in {i \in 1 .. Len(log) :
        /\ log[i].ptype = CAN_DO
        /\ \A m \in (i + 1) .. Len(log) :
               ~(log[m].ptype = CANT_DO /\ log[m].data = log[i].data)}}

\* C2: two SUBMIT_JOB packets with the same (function name, unique), the second
\* processed while the first one's job is still queued, are answered with the
\* same handle, and the queue holds one job for that key.
C2_SameKeySameHandle ==
    \A i \in 1 .. Len(log) : \A k \in (i + 1) .. Len(log) :
        ( /\ IsSubmit(log[i]) /\ IsSubmit(log[k])
          /\ SubmitName(log[i]) = SubmitName(log[k])
          /\ SubmitUnique(log[i]) = SubmitUnique(log[k])
          /\ log[i].hasReply /\ Queued(log[i].reply.data) )
        => /\ log[k].hasReply
           /\ log[k].reply.ptype = JOB_CREATED
           /\ log[k].reply.data = log[i].reply.data
           /\ Cardinality({n \in 1 .. Len(queues) :
                  \E m \in 1 .. Len(log) :
                      /\ IsSubmit(log[m]) /\ log[m].hasReply
                      /\ log[m].reply.data = queues[n].handle
                      /\ SubmitName(log[m]) = SubmitName(log[i])
                      /\ SubmitUnique(log[m]) = SubmitUnique(log[i])}) = 1

\* C3: a GRAB_JOB, GRAB_JOB_UNIQ or GRAB_JOB_ALL packet is answered with one
\* packet: NO_JOB exactly when no job is queued for a function of the worker,
\* else a JOB_ASSIGN* for the one job taken off the queue; the queue changes
\* only together with such an assignment.
C3_GrabAnswered ==
    [][ (Len(log') = Len(log) + 1 /\ log'[Len(log')].ptype \in GrabPTypes) =>
          LET e     == log'[Len(log')]
              avail == \E n \in 1 .. Len(queues) : queues[n].fname \in functions
              assign == e.hasReply /\ e.reply.ptype \in {JOB_ASSIGN, JOB_ASSIGN_UNIQ, JOB_ASSIGN_ALL}
          IN /\ e.hasReply
             /\ (e.reply.ptype = NO_JOB) <=> ~avail
             /\ avail => (assign /\ Len(queues') = Len(queues) - 1)
             /\ queues' # queues => assign ]_vars

\* C4: a job submitted as `f NUL u NUL p` and a worker registered with CAN_DO `f`
\* hold the same function-name bytes, f itself with no separator byte: while
\* the job is queued and the name registered, the worker's grab finds a job.
C4_SubmitNameIsCanDoName ==
    \A i \in 1 .. Len(log) :
        (IsSubmit(log[i]) /\ log[i].status = "Ok") =>
            /\ log[i].fname = SubmitName(log[i])
            /\ \A k \in 1 .. Len(log) :
                   (log[k].ptype = CAN_DO /\ log[k].data = SubmitName(log[i]))
                       => log[k].fname = log[i].fname
            /\ (Queued(log[i].reply.data) /\ SubmitName(log[i]) \in Registered)
                   => get_job(queues, functions) # {}

\* C11: a SUBMIT_JOB packet whose payload holds fewer than two NUL bytes is
\* rejected by Packet::process with a parse error: it gets no reply and no job
\* is created or queued for it.
C11_ShortSubmitRejected ==
    [][ ( /\ Len(log') = Len(log) + 1
          /\ log'[Len(log')].ptype = SUBMIT_JOB
          /\ Cardinality(NulsOf(log'[Len(log')].data)) < 2 )
        => /\ log'[Len(log')].status = "Err"
           /\ ~log'[Len(log')].hasReply
           /\ job_count' = job_count
           /\ queues' = queues ]_vars

\* C12: a packet whose ptype is not in the registry is answered with an ERROR
\* packet and nothing aborts: process returns, and the packets after it are
\* still processed.
C12_UnknownPTypeGetsError ==
    \A i \in 1 .. Len(log) :
        ~InRegistry(log[i].ptype) =>
            /\ log[i].status # "Panic"
            /\ log[i].hasReply
            /\ log[i].reply.ptype = ERROR

\* C18: CAN_DO and CANT_DO get no reply and leave the queues alone, and the
\* worker's function set is exactly the set of names (the packet's payload,
\* its one field) whose most recent packet was CAN_DO.
C18_FunctionsAreLastCanDo ==
    /\ functions = Registered
    /\ \A i \in 1 .. Len(log) :
           log[i].ptype \in {CAN_DO, CANT_DO} => (log[i].status = "Ok" /\ ~log[i].hasReply)
C18_QueuesUntouched ==
    [][ (Len(log') = Len(log) + 1 /\ log'[Len(log')].ptype \in {CAN_DO, CANT_DO})
        => (queues' = queues /\ job_count' = job_count) ]_vars

(***************************************************************************)
(* The peer's byte streams.                                                *)
(***************************************************************************)
\* payloads "", "a", "ab", ...: every length up to MaxPayload, pairwise distinct bytes
Payloads == {[i \in 1 .. n |-> 96 + i] : n \in 0 .. MaxPayload}
StreamPTypes == {SUBMIT_JOB}
\* Packet::to_byteslice for a REQ or RES packet
to_byteslice(magic, ptype, data) ==
    (IF magic = "REQ" THEN REQ ELSE RES) \o put_u32(ptype) \o put_u32(Len(data)) \o data
WirePackets ==
    {to_byteslice(m, t, d) : m \in {"REQ", "RES"}, t \in StreamPTypes, d \in Payloads}
PacketStreams ==
    UNION {{Flatten(ps) : ps \in [1 .. k -> WirePackets]} : k \in 1 .. MaxPackets}
\* admin lines: "status\n" and "status\nversion\n"
TextStreams == {STR_status \o <<NEWLINE>>,
                STR_status \o <<NEWLINE>> \o STR_version \o <<NEWLINE>>}
Streams == PacketStreams \cup TextStreams

(***************************************************************************)
(* SpecCodec: the connection's reader. The framed transport (tokio_io) owns *)
(* buf: it appends what a socket read returns and calls decode on it.      *)
(***************************************************************************)
CodecInit ==
    /\ stream \in Streams
    /\ nread = 0
    /\ buf = <<>>
    /\ data_todo = None          \* a new PacketCodec has decoded nothing
    /\ frames = <<>>
    /\ peeked = NoPeek
    /\ conn = "open"
    /\ PacketInit
    /\ BrokerInit
    /\ ServerInit

\* a socket read delivers the next n bytes of the stream
Read ==
    /\ conn = "open"
    /\ \E n \in 1 .. (Len(stream) - nread) :
        /\ buf' = buf \o SubSeq(stream, nread + 1, nread + n)
        /\ nread' = nread + n
    /\ UNCHANGED <<stream, data_todo, frames, peeked, conn>>
    /\ UNCHANGED <<packetVars, brokerVars, serverVars>>

\* one call of PacketCodec::decode on the buffer
Decode ==
    /\ conn = "open"
    /\ Len(frames) < MaxFrames
    /\ \E debug \in BOOLEAN :
        LET r == PacketCodec_decode(data_todo, buf, debug) IN
        /\ conn' = IF r.status = "Panic" THEN "panicked"
                   ELSE IF r.status = "Err" THEN "error" ELSE "open"
        /\ buf' = r.buf
        /\ data_todo' = r.data_todo
        /\ frames' = IF r.status = "Ok" /\ r.hasItem THEN Append(frames, r.item) ELSE frames
        /\ peeked' = IF ~data_todo.some /\ Len(buf) >= 4
                     THEN [first4 |-> Take(buf, 4), magic |-> MatchMagic(Take(buf, 4))]
                     ELSE peeked
    /\ UNCHANGED <<stream, nread>>
    /\ UNCHANGED <<packetVars, brokerVars, serverVars>>

CodecNext == Read \/ Decode
SpecCodec == CodecInit /\ [][CodecNext]_vars

(***************************************************************************)
(* Claims about the codec, checked under SpecCodec.                        *)
(***************************************************************************)
IsHeader(f) == f.kind = "Message"
IsChunk(f)  == f.kind = "Body" /\ f.some
IsMarker(f) == f.kind = "Body" /\ ~f.some
\* index of the first end-of-body marker of frames, or Len(frames) + 1
FirstMarker ==
    LET at == {i \in 1 .. Len(frames) : IsMarker(frames[i])} IN
    IF at = {} THEN Len(frames) + 1 ELSE CHOOSE i \in at : \A j \in at : i <= j
\* the body chunks between the first header and the first end-of-body marker
FirstBody == [i \in 1 .. (FirstMarker - 2) |-> frames[i + 1].chunk]
IntendedMagic(first4) ==
    IF first4 = REQ THEN "REQ" ELSE IF first4 = RES THEN "RES" ELSE "TEXT"

\* C1: the frames of a connection are, packet after packet, one header, body
\* chunks, one end-of-body marker: a frame is a header exactly when it is the
\* first frame or the frame after an end-of-body marker.
C1_FramesPacketByPacket ==
    \A i \in 1 .. Len(frames) :
        IsHeader(frames[i]) <=> (i = 1 \/ IsMarker(frames[i - 1]))

\* C7: PacketHeader::decode classifies the buffer by its first four bytes:
\* "\0REQ" is REQ, "\0RES" is RES, anything else is TEXT.
C7_MagicByFirstFour ==
    peeked # NoPeek => peeked.magic = IntendedMagic(peeked.first4)

\* C8: for a stream that is one packet (REQ or RES), once the decoder has emitted
\* the packet's end-of-body marker, encoding the emitted frames in order gives
\* back the bytes of the stream.
C8_FramingRoundTrip ==
    (stream \in WirePackets /\ FirstMarker <= Len(frames)) => EncodeAll(frames) = stream

\* C9: between the header frame and the end-of-body marker the decoder emits
\* body chunks only; concatenated they are the bytes that follow the header on
\* the stream, never more than psize of them; the marker comes only when they
\* are exactly psize bytes; with psize 0 the frame after the header is the marker.
C9_BodyChunksSumToPsize ==
    frames # <<>> =>
        LET psize == frames[1].psize
            body  == Flatten(FirstBody)
        IN /\ IsHeader(frames[1])
           /\ \A i \in 2 .. (FirstMarker - 1) : IsChunk(frames[i])
           /\ Len(body) <= psize
           /\ body = SubSeq(stream, 13, 12 + Len(body))
           /\ FirstMarker <= Len(frames) => Len(body) = psize
           /\ (psize = 0 /\ Len(frames) >= 2) => IsMarker(frames[2])
\* a two byte payload that arrived in two reads: two one-byte chunks, then the marker
C9_SplitPayloadDecoded ==
    /\ Len(frames) = 4
    /\ IsHeader(frames[1]) /\ frames[1].psize = 2
    /\ IsChunk(frames[2]) /\ Len(frames[2].chunk) = 1
    /\ IsChunk(frames[3]) /\ Len(frames[3].chunk) = 1
    /\ IsMarker(frames[4])

\* C10: once a TEXT frame has been decoded, a frame decoded later is a TEXT
\* frame. No reachable state of SpecCodec holds a TEXT frame (MatchMagic never
\* gives TEXT), so the property holds of no case: C10_TextFrameDecoded is the
\* case it speaks of, and TLC finds it unreachable.
C10_TextModeSticky ==
    \A i \in 1 .. Len(frames) : \A k \in (i + 1) .. Len(frames) :
        (IsHeader(frames[i]) /\ frames[i].magic = "TEXT")
            => (IsHeader(frames[k]) /\ frames[k].magic = "TEXT")
C10_TextFrameDecoded ==
    \E i \in 1 .. Len(frames) : IsHeader(frames[i]) /\ frames[i].magic = "TEXT"

\* C19: PacketHeader::decode on a buffer shorter than a 12-byte header (length
\* 0..11, the empty buffer at end of stream included) reports "need more data":
\* the call returns no frame, consumes no byte, and neither fails nor panics.
C19_ShortHeaderNeedsMoreData ==
    [][ (nread' = nread /\ ~data_todo.some /\ Len(buf) < 12)
        => /\ conn' = "open"
           /\ buf' = buf
           /\ frames' = frames
           /\ data_todo' = data_todo ]_vars

\* C20: while payload bytes are owed (data_todo > 0), decode on an empty buffer
\* returns no frame: every body chunk among the frames is non-empty.
C20_BodyChunksNonEmpty ==
    \A i \in 1 .. Len(frames) : IsChunk(frames[i]) => Len(frames[i].chunk) > 0

(***************************************************************************)
(* SpecServer: GearmanServer::run_with_stop (server.rs). One event loop    *)
(* runs the accept loop and, per connection, a reader and a writer task.   *)
(* The n-th frame of a connection is the number n, and so is its response. *)
(***************************************************************************)
\* how core.run(..).unwrap() can end; no arm of the `then` closure returns Ok
ListenerEnded == "panic: Listener ended!"
UnwrapErr     == "panic: unwrap on Err(Graceful Shutdown)"
SinkBroken    == "panic: Sink is broken"
\* what Sink::start_send and Sink::poll_complete can answer
IO == {"Ready", "NotReady", "Err"}
Iota(n) == [i \in 1 .. n |-> i]

\* the reader or writer of c is still spawned on the loop
ReaderAlive(c) == reader[c].pc \in {"idle", "sending", "flushing"}
WriterAlive(c) == writer[c].pc \in {"recv", "send"}

\* the live Sender handles of c's channel: the reader closure's tx, the clone
\* made for the frame in hand, and the clone stored in the map
SendersOf(c) ==
    (IF ReaderAlive(c) THEN 1 ELSE 0)
    + (IF reader[c].pc \in {"sending", "flushing"} THEN 1 ELSE 0)
    + (IF c \in senders_by_conn_id THEN 1 ELSE 0)

\* senders_by_conn_id.insert(conn_id, tx.clone())
insert_sender(map, conn_id) == map \cup {conn_id}

\* dropping the connection's GearmanService: its entry leaves the shared map
GearmanService_drop_Keeps(map, conn_id) == map
GearmanService_drop(map, conn_id) == map \ {conn_id}
\* service.call(frame): the response to the n-th frame
GearmanService_call(frame) == frame

\* tx.clone().send(response) on the channel of buffer MaxEgress: a fresh Sender
\* is never parked, so its message is queued whatever the queue holds, and the
\* Sender is parked when the queue was already at the buffer size; a send to a
\* dropped Receiver fails and the message is lost
mpsc_send(q, open, f) ==
    [queue |-> IF open THEN Append(q, f) ELSE q,
     parked |-> open /\ Len(q) >= MaxEgress]

\* what a poll of MySinkSend leaves: its result, its item, the sink's frames
Polled(res, item, frame, w) == [res |-> res, item |-> item, frame |-> frame, wire |-> w]
\* MySinkSend::poll on (item, frame) with the sink's written frames w: one
\* outcome for each answer start_send and poll_complete can give
MySinkSend_poll_Forgets(s, w) ==
    IF s.item = "Ready" THEN {Polled(fl, "Ready", 0, w) : fl \in IO}
    ELSE IF s.item = "Err" THEN {Polled("Panic", "Err", 0, w)}
    ELSE {Polled(fl, "Ready", 0, Append(w, s.frame)) : fl \in IO}
         \cup {Polled(fl, "Ready", 0, w) : fl \in IO}
         \cup {Polled("Panic", "Err", 0, w)}
MySinkSend_poll(s, w) ==
    IF s.item = "Ready" THEN {Polled(fl, "Ready", 0, w) : fl \in IO}   \* sink.poll_complete()
    ELSE IF s.item = "Err" THEN {Polled("Panic", "Err", 0, w)}         \* "Sink is broken"
    ELSE \* start_send(to_send) again: Ready and poll_complete, NotReady, or Err
         {Polled(fl, "Ready", 0, Append(w, s.frame)) : fl \in IO}
         \cup {Polled("NotReady", "NotReady", s.frame, w)}
         \cup {Polled("Panic", "Err", 0, w)}

\* a parked reader is woken when the Receiver takes a message or is dropped
Unparked(r) == IF r.pc = "flushing" THEN [NoTask EXCEPT !.pc = "idle"] ELSE r

ServerSpecInit ==
    /\ ServerInit
    /\ CodecIdle
    /\ PacketInit
    /\ BrokerInit

\* the accept closure: listener.incoming().for_each(..)
Accept ==
    /\ srv = "running"
    /\ curr_conn_id < MaxConns
    /\ LET conn_id == curr_conn_id IN            \* fetch_add returns the old value
        /\ curr_conn_id' = curr_conn_id + 1
        /\ senders_by_conn_id' = insert_sender(senders_by_conn_id, conn_id)
        /\ reader' = [reader EXCEPT ![conn_id] = [NoTask EXCEPT !.pc = "idle"]]
        /\ writer' = [writer EXCEPT ![conn_id] = [NoTask EXCEPT !.pc = "recv"]]
    /\ UNCHANGED <<srv, stop_rx, dispatched, egress, wire>>
    /\ UNCHANGED <<codecVars, packetVars, brokerVars>>

\* reader: the stream yields the next frame and service.call answers it
Dispatch(c) ==
    /\ srv = "running"
    /\ reader[c].pc = "idle"
    /\ dispatched[c] < MaxIn
    /\ dispatched' = [dispatched EXCEPT ![c] = @ + 1]
    /\ reader' = [reader EXCEPT ![c] =
                    [pc |-> "sending", item |-> "Ready",
                     frame |-> GearmanService_call(dispatched[c] + 1)]]
    /\ UNCHANGED <<srv, stop_rx, curr_conn_id, senders_by_conn_id, egress, writer, wire>>
    /\ UNCHANGED <<codecVars, packetVars, brokerVars>>

\* reader: tx.send(response).then(|_| future::ok(())); whether Send's
\* poll_complete waits for a parked Sender depends on the futures release
Send(c) ==
    /\ srv = "running"
    /\ reader[c].pc = "sending"
    /\ LET r == mpsc_send(egress[c], WriterAlive(c), reader[c].frame) IN
        /\ egress' = [egress EXCEPT ![c] = r.queue]
        /\ \E waits \in BOOLEAN :
            reader' = [reader EXCEPT ![c] =
                        IF r.parked /\ waits THEN [NoTask EXCEPT !.pc = "flushing"]
                        ELSE [NoTask EXCEPT !.pc = "idle"]]
    /\ UNCHANGED <<srv, stop_rx, curr_conn_id, senders_by_conn_id, dispatched, writer, wire>>
    /\ UNCHANGED <<codecVars, packetVars, brokerVars>>

\* reader: the stream ends or fails; the closure with tx and service is dropped
ReaderEnd(c) ==
    /\ srv = "running"
    /\ reader[c].pc = "idle"
    /\ reader' = [reader EXCEPT ![c] = [NoTask EXCEPT !.pc = "done"]]
    /\ senders_by_conn_id' = GearmanService_drop(senders_by_conn_id, c)
    /\ UNCHANGED <<srv, stop_rx, curr_conn_id, dispatched, egress, writer, wire>>
    /\ UNCHANGED <<codecVars, packetVars, brokerVars>>

\* a panic on the loop's thread unwinds run_with_stop: the Core, its tasks, the
\* channels and the map are dropped with it
Unwind(how) ==
    /\ srv' = how
    /\ curr_conn_id' = 0
    /\ senders_by_conn_id' = {}
    /\ reader' = [c \in ConnIds |-> NoTask]
    /\ dispatched' = [c \in ConnIds |-> 0]
    /\ egress' = [c \in ConnIds |-> <<>>]
    /\ writer' = [c \in ConnIds |-> NoTask]
    /\ wire' = [c \in ConnIds |-> <<>>]

\* what a poll of the writer's MySinkSend leaves behind
WriterAfter(c, r, q) ==
    IF r.res = "Panic"
    THEN Unwind(SinkBroken)
    ELSE /\ UNCHANGED <<srv, curr_conn_id, senders_by_conn_id, dispatched>>
         /\ wire' = [wire EXCEPT ![c] = r.wire]
         /\ writer' = [writer EXCEPT ![c] =
                IF r.res = "Ready" THEN [NoTask EXCEPT !.pc = "recv"]
                ELSE IF r.res = "NotReady"
                     THEN [pc |-> "send", item |-> r.item, frame |-> r.frame]
                ELSE [NoTask EXCEPT !.pc = "failed"]]
         \* an Err ends rx.for_each: the Receiver is dropped with what it holds
         /\ egress' = [egress EXCEPT ![c] = IF r.res = "Err" THEN <<>> ELSE q]
         /\ reader' = [reader EXCEPT ![c] =
                IF r.res = "Err" \/ q # egress[c] THEN Unparked(@) ELSE @]

\* writer: rx yields to_send, the closure calls start_send and for_each polls
\* the MySinkSend it returns
WriterRecv(c) ==
    /\ srv = "running"
    /\ writer[c].pc = "recv"
    /\ egress[c] # <<>>
    /\ \E ss0 \in IO :
        LET to_send == Head(egress[c])
            sender == [item |-> ss0, frame |-> IF ss0 = "NotReady" THEN to_send ELSE 0]
            w == IF ss0 = "Ready" THEN Append(wire[c], to_send) ELSE wire[c]
        IN \E r \in MySinkSend_poll(sender, w) : WriterAfter(c, r, Tail(egress[c]))
    /\ UNCHANGED stop_rx
    /\ UNCHANGED <<codecVars, packetVars, brokerVars>>

\* writer: a later poll of the MySinkSend that returned NotReady
WriterPoll(c) ==
    /\ srv = "running"
    /\ writer[c].pc = "send"
    /\ \E r \in MySinkSend_poll(writer[c], wire[c]) : WriterAfter(c, r, egress[c])
    /\ UNCHANGED stop_rx
    /\ UNCHANGED <<codecVars, packetVars, brokerVars>>

\* writer: rx ends once it is empty and every Sender has been dropped
WriterEnd(c) ==
    /\ srv = "running"
    /\ writer[c].pc = "recv"
    /\ egress[c] = <<>>
    /\ SendersOf(c) = 0
    /\ writer' = [writer EXCEPT ![c] = [NoTask EXCEPT !.pc = "ended"]]
    /\ UNCHANGED <<srv, stop_rx, curr_conn_id, senders_by_conn_id,
                   reader, dispatched, egress, wire>>
    /\ UNCHANGED <<codecVars, packetVars, brokerVars>>

\* the holder of the oneshot Sender sends () on it, or drops it
StopSend ==
    /\ srv = "running"
    /\ stop_rx = "pending"
    /\ stop_rx' = "sent"
    /\ UNCHANGED <<srv, curr_conn_id, senders_by_conn_id,
                   reader, dispatched, egress, writer, wire>>
    /\ UNCHANGED <<codecVars, packetVars, brokerVars>>
StopDrop ==
    /\ srv = "running"
    /\ stop_rx = "pending"
    /\ stop_rx' = "canceled"
    /\ UNCHANGED <<srv, curr_conn_id, senders_by_conn_id,
                   reader, dispatched, egress, writer, wire>>
    /\ UNCHANGED <<codecVars, packetVars, brokerVars>>

\* server.select(stopper).then(..) resolves: Ok(((), _)) when stopper yields
\* the value, Err((e, _)) when the oneshot was canceled
RunEnds ==
    /\ srv = "running"
    /\ stop_rx # "pending"
    /\ Unwind(IF stop_rx = "sent" THEN ListenerEnded ELSE UnwrapErr)
    /\ UNCHANGED stop_rx
    /\ UNCHANGED <<codecVars, packetVars, brokerVars>>

ServerNext ==
    \/ Accept
    \/ \E c \in ConnIds : Dispatch(c)
    \/ \E c \in ConnIds : Send(c)
    \/ \E c \in ConnIds : ReaderEnd(c)
    \/ \E c \in ConnIds : WriterRecv(c)
    \/ \E c \in ConnIds : WriterPoll(c)
    \/ \E c \in ConnIds : WriterEnd(c)
    \/ StopSend \/ StopDrop \/ RunEnds
SpecServer == ServerSpecInit /\ [][ServerNext]_vars

(***************************************************************************)
(* Claims about the server loop, checked under SpecServer.                 *)
(***************************************************************************)
\* C13: once a value has been sent on stop_rx, run_with_stop ends by returning:
\* it never ends in a panic.
C13_StopReturns ==
    (stop_rx = "sent" /\ srv # "running") => srv = "returned"

\* C14: a socket write error seen by one connection's writer never panics the
\* broker: the event loop keeps running for the other connections.
C14_WriteErrorIsLocal ==
    srv # SinkBroken

C16_FullEgressDrops ==
    [][ \A c \in ConnIds :
          ( /\ reader[c].pc = "sending" /\ reader'[c].pc # "sending"
            /\ srv' = "running"
            /\ WriterAlive(c) /\ Len(egress[c]) >= MaxEgress )
          => (egress'[c] = egress[c] /\ reader'[c].pc = "idle") ]_vars

\* what the writer's MySinkSend and the reader's send still hold of c's frames
WriterHolds(c) ==
    IF writer[c].pc = "send" /\ writer[c].item = "NotReady" THEN <<writer[c].frame>> ELSE <<>>
ReaderHolds(c) ==
    IF reader[c].pc = "sending" THEN <<reader[c].frame>> ELSE <<>>

\* C17: a connection's frames are dispatched one at a time in arrival order, the
\* response to frame n is on the egress before frame n+1 is dispatched, and the
\* writer puts the responses on the socket in egress order, each exactly once.
C17_InOrderExactlyOnce ==
    \A c \in ConnIds :
        /\ wire[c] = Iota(Len(wire[c]))
        /\ WriterAlive(c) =>
              wire[c] \o WriterHolds(c) \o egress[c] \o ReaderHolds(c) = Iota(dispatched[c])
\* two frames of a connection dispatched, answered and written to its socket
C17_TwoWritten ==
    \E c \in ConnIds : dispatched[c] >= 2 /\ Len(wire[c]) >= 2

====
